---- MODULE Spec2Model ----
(***************************************************************************)
(* Market Analysis pipeline generated by create_market_analysis.py:        *)
(* 00_market_config.R (configuration, cache gate) and the five stage       *)
(* scripts 01..05.  A state is the file system the scripts read and write  *)
(* (external inputs, primary output tables, cache records), the R session  *)
(* (MARKET_CONFIG and the utility functions, when defined) and a record of *)
(* the last invocation.  One action models one whole script run.           *)
(*                                                                         *)
(* Numbers: weights and risk scores are in thousandths (0.35 is 350).      *)
(* Time: a file's mtime is a raw clock reading; as.character() prints it   *)
(* at a coarser resolution (AsCharacter).  The scripts only ever compare a *)
(* file's mtime with an earlier mtime of the same file, so readings are    *)
(* kept per file: every write of a file gets a reading later than the      *)
(* file's previous one, by one to TicksPerStamp ticks.                     *)
(***************************************************************************)
EXTENDS Integers, Sequences, FiniteSets, TLC

\* ------------------------------------------------------------- bounds
\* Largest raw clock reading a file's mtime takes.
MaxTime == 2
\* Interventions of the user in one behaviour: changes to the external input
\* files and FORCE_REBUILD overrides.
MaxEdits == 1
\* Doubles between two neighbouring numbers that write.csv can print.
DoublesPerStep == 4
\* Raw clock readings per printed timestamp unit (resolution lost by as.character).
TicksPerStamp == 2

\* ------------------------------------------------------------- names
\* R's NA (the mtime file.info reports for a missing file, a missing table cell).
NA == -999999
\* A path with no file (mtime then keeps the reading of the file's last write, which
\* no script can see), a stage with no cache record, a session without MARKET_CONFIG.
NoFile == [exists |-> FALSE, mtime |-> NA, kind |-> "none"]
NoRec == [exists |-> FALSE, input_files |-> <<>>]
NoCfg == [defined |-> FALSE, data_root |-> "", FORCE_REBUILD |-> FALSE, risk_weights |-> <<>>]
NoError == [kind |-> "", file |-> ""]
NoRun == [stage |-> "none", outcome |-> "none", gate |-> FALSE, rebuild |-> FALSE,
          written |-> {}, error |-> NoError, saved |-> FALSE, weights |-> <<>>, value |-> ""]

LABOR == "labor_market_trends"
CREDENTIAL == "credential_pressure"
PEER == "peer_program_supply"
WAGECOST == "wage_vs_cost_context"
RISK == "market_risk_index"
Stages == {LABOR, CREDENTIAL, PEER, WAGECOST, RISK}

OEWS_FILE == "bls_oews.csv"
PROJ_FILE == "bls_projections.csv"
CREDENTIAL_FILE == "credential_pressure.csv"
IPEDS_FILE == "ipeds_program_counts.csv"
TUITION_FILE == "tuition_program_level.csv"
ExternalFiles == {OEWS_FILE, PROJ_FILE, CREDENTIAL_FILE, IPEDS_FILE, TUITION_FILE}

LABOR_SUMMARY_FILE == "market_labor_summary.csv"
CREDENTIAL_SUMMARY_FILE == "credential_pressure_summary.csv"
PEER_SUPPLY_FILE == "peer_program_supply.csv"
WAGE_COST_FILE == "wage_vs_cost_context.csv"
RISK_INDEX_FILE == "market_risk_index.csv"

\* The table a stage writes first (write_dual_format's csv).
PrimaryOutput(s) ==
  CASE s = LABOR -> LABOR_SUMMARY_FILE
    [] s = CREDENTIAL -> CREDENTIAL_SUMMARY_FILE
    [] s = PEER -> PEER_SUPPLY_FILE
    [] s = WAGECOST -> WAGE_COST_FILE
    [] s = RISK -> RISK_INDEX_FILE

PrimaryFiles == {PrimaryOutput(s) : s \in Stages}
\* Files whose existence the scripts test.
TrackedFiles == ExternalFiles \cup PrimaryFiles

\* (mutant) the wage-vs-cost table is written under the labor summary's name.
Outputs_LaborName(s) ==
  CASE s = LABOR -> {LABOR_SUMMARY_FILE, "market_labor_summary.md",
                     "labor_market_growth_vs_wage.png"}
    [] s = CREDENTIAL -> {CREDENTIAL_SUMMARY_FILE, "credential_pressure_summary.md"}
    [] s = PEER -> {PEER_SUPPLY_FILE, "peer_program_supply.md",
                    "peer_program_supply_bars.png"}
    [] s = WAGECOST -> {WAGE_COST_FILE, LABOR_SUMMARY_FILE, "market_labor_summary.md",
                        "wage_vs_cost_context.png"}
    [] s = RISK -> {RISK_INDEX_FILE, "market_risk_index.md",
                    "market_risk_index_weights.csv"}

\* Everything a complete run of a stage writes: tables (csv + md), charts.
Outputs(s) ==
  CASE s = LABOR -> {LABOR_SUMMARY_FILE, "market_labor_summary.md",
                     "labor_market_growth_vs_wage.png"}
    [] s = CREDENTIAL -> {CREDENTIAL_SUMMARY_FILE, "credential_pressure_summary.md"}
    [] s = PEER -> {PEER_SUPPLY_FILE, "peer_program_supply.md",
                    "peer_program_supply_bars.png"}
    [] s = WAGECOST -> {WAGE_COST_FILE, "wage_vs_cost_context.md",
                        "wage_vs_cost_context.png"}
    [] s = RISK -> {RISK_INDEX_FILE, "market_risk_index.md",
                    "market_risk_index_weights.csv"}

Charts == {"labor_market_growth_vs_wage.png", "peer_program_supply_bars.png",
           "wage_vs_cost_context.png"}

\* The template written in place of a missing external input.
TemplateOf(f) ==
  CASE f = OEWS_FILE -> "bls_oews_TEMPLATE.csv"
    [] f = PROJ_FILE -> "bls_projections_TEMPLATE.csv"
    [] f = CREDENTIAL_FILE -> "credential_pressure_TEMPLATE.csv"
    [] f = IPEDS_FILE -> "ipeds_program_counts_TEMPLATE.csv"
    [] f = TUITION_FILE -> "tuition_program_level_TEMPLATE.csv"

\* input_files as each script passes them to should_rebuild / save_cache_metadata.
InputFiles(s) ==
  CASE s = LABOR -> <<OEWS_FILE, PROJ_FILE>>
    [] s = CREDENTIAL -> <<CREDENTIAL_FILE>>
    [] s = PEER -> <<IPEDS_FILE>>
    [] s = WAGECOST -> <<LABOR_SUMMARY_FILE, TUITION_FILE>>
    [] s = RISK -> <<LABOR_SUMMARY_FILE, CREDENTIAL_SUMMARY_FILE, PEER_SUPPLY_FILE>>

\* (mutant) the labor script looks for the projections before the OEWS file.
ExistenceChecks_ProjFirst(s) ==
  CASE s = LABOR -> <<PROJ_FILE, OEWS_FILE>>
    [] s = CREDENTIAL -> <<CREDENTIAL_FILE>>
    [] s = PEER -> <<IPEDS_FILE>>
    [] s = WAGECOST -> <<LABOR_SUMMARY_FILE, TUITION_FILE>>
    [] s = RISK -> <<LABOR_SUMMARY_FILE, CREDENTIAL_SUMMARY_FILE, PEER_SUPPLY_FILE>>

\* (mutant) the risk script does not look for the peer supply table.
ExistenceChecks_NoPeer(s) ==
  CASE s = LABOR -> <<OEWS_FILE, PROJ_FILE>>
    [] s = CREDENTIAL -> <<CREDENTIAL_FILE>>
    [] s = PEER -> <<IPEDS_FILE>>
    [] s = WAGECOST -> <<LABOR_SUMMARY_FILE, TUITION_FILE>>
    [] s = RISK -> <<LABOR_SUMMARY_FILE, CREDENTIAL_SUMMARY_FILE>>

\* (mutant) the wage-vs-cost script looks for the tuition file first.
ExistenceChecks_TuitionFirst(s) ==
  CASE s = LABOR -> <<OEWS_FILE, PROJ_FILE>>
    [] s = CREDENTIAL -> <<CREDENTIAL_FILE>>
    [] s = PEER -> <<IPEDS_FILE>>
    [] s = WAGECOST -> <<TUITION_FILE, LABOR_SUMMARY_FILE>>
    [] s = RISK -> <<LABOR_SUMMARY_FILE, CREDENTIAL_SUMMARY_FILE, PEER_SUPPLY_FILE>>

\* The file.exists checks of a script, in the order the script makes them.
\* A missing external input gets a template; a missing upstream output only an error.
ExistenceChecks(s) ==
  CASE s = LABOR -> <<OEWS_FILE, PROJ_FILE>>
    [] s = CREDENTIAL -> <<CREDENTIAL_FILE>>
    [] s = PEER -> <<IPEDS_FILE>>
    [] s = WAGECOST -> <<LABOR_SUMMARY_FILE, TUITION_FILE>>
    [] s = RISK -> <<LABOR_SUMMARY_FILE, CREDENTIAL_SUMMARY_FILE, PEER_SUPPLY_FILE>>

\* The tables a script validates after reading them, in order
\* (validate_required_columns, validate_exam_trends).
ValidatedFiles(s) ==
  CASE s = LABOR -> <<OEWS_FILE, PROJ_FILE>>
    [] s = CREDENTIAL -> <<CREDENTIAL_FILE>>
    [] s = PEER -> <<IPEDS_FILE>>
    [] s = WAGECOST -> <<TUITION_FILE>>
    [] s = RISK -> <<>>

Range(q) == {q[i] : i \in DOMAIN q}

\* ------------------------------------------------------------- state
VARIABLES
  edits,          \* interventions of the user so far
  fs,             \* TrackedFiles -> NoFile or [exists, mtime, kind]
  cache,          \* Stages -> NoRec or [exists, input_files: file -> [text, raw]]
  MARKET_CONFIG,  \* the session's configuration object, or NoCfg
  utils,          \* should_rebuild & co. are defined in the session
  envRoot,        \* SHRS_DATA_ROOT ("" when unset)
  pathsFile,      \* scripts/config/data_paths.R: [exists, defines, DATA_ROOT]
  fileWeights,    \* risk_weights as written in 00_market_config.R
  tables,         \* rows of the tables the risk stage reads and writes
  last            \* what the last step did, when it was a script run

vars == <<edits, fs, cache, MARKET_CONFIG, utils, envRoot, pathsFile, fileWeights,
          tables, last>>

\* ------------------------------------------------------------- 00_market_config.R
\* Directories that exist on the machine; data roots are drawn from DirNames.
ExistingDirs == {"/data"}
DirNames == {"/data", "/gone"}
dir_exists(d) == d \in ExistingDirs

PathsFiles ==
  {[exists |-> FALSE, defines |-> FALSE, DATA_ROOT |-> ""],
   [exists |-> TRUE, defines |-> FALSE, DATA_ROOT |-> ""]}
  \cup {[exists |-> TRUE, defines |-> TRUE, DATA_ROOT |-> d] : d \in DirNames}

\* (mutant) a SHRS_DATA_ROOT naming no directory falls through to the override file.
get_data_root_FallThrough(env_root, paths) ==
  IF env_root # "" /\ dir_exists(env_root)
  THEN [ok |-> TRUE, path |-> env_root, error |-> ""]
  ELSE IF paths.exists /\ paths.defines
       THEN IF ~dir_exists(paths.DATA_ROOT)
            THEN [ok |-> FALSE, path |-> "", error |-> "DATA_ROOT defined but directory does not exist"]
            ELSE [ok |-> TRUE, path |-> paths.DATA_ROOT, error |-> ""]
       ELSE [ok |-> FALSE, path |-> "", error |-> "Data root not configured"]

\* get_data_root(): the environment variable first; when it is set the override
\* file is never consulted.
get_data_root(env_root, paths) ==
  IF env_root # ""
  THEN IF ~dir_exists(env_root)
       THEN [ok |-> FALSE, path |-> "", error |-> "SHRS_DATA_ROOT set but directory does not exist"]
       ELSE [ok |-> TRUE, path |-> env_root, error |-> ""]
  ELSE IF paths.exists /\ paths.defines
       THEN IF ~dir_exists(paths.DATA_ROOT)
            THEN [ok |-> FALSE, path |-> "", error |-> "DATA_ROOT defined but directory does not exist"]
            ELSE [ok |-> TRUE, path |-> paths.DATA_ROOT, error |-> ""]
       ELSE [ok |-> FALSE, path |-> "", error |-> "Data root not configured"]

\* risk_weights in thousandths: labor_demand, wage_level, peer_saturation,
\* credential_pressure.
DefaultWeights == <<350, 250, 200, 200>>
WeightChoices == {DefaultWeights, <<350, 250, 200, 201>>, <<350, 250, 200, 202>>,
                  <<400, 250, 200, 200>>}

Abs(x) == IF x < 0 THEN 0 - x ELSE x
SumWeights(w) == w[1] + w[2] + w[3] + w[4]
\* abs(sum(unlist(risk_weights)) - 1.0) > 0.001 stops the load.
WeightsRejected(w) == Abs(SumWeights(w) - 1000) > 1

\* source("00_market_config.R") in a session holding cfg / fns: the session after it.
\* MARKET_CONFIG is assigned before the weights are validated; the utility
\* functions are defined only after the validation passed.
SourceConfig(cfg, fns) ==
  LET root == get_data_root(envRoot, pathsFile)
      made == [defined |-> TRUE, data_root |-> root.path, FORCE_REBUILD |-> FALSE,
               risk_weights |-> fileWeights]
  IN IF ~root.ok
     THEN [ok |-> FALSE, cfg |-> cfg, utils |-> fns, error |-> root.error]
     ELSE IF WeightsRejected(fileWeights)
          THEN [ok |-> FALSE, cfg |-> made, utils |-> fns,
                error |-> "MARKET_CONFIG$risk_weights must sum to 1.0"]
          ELSE [ok |-> TRUE, cfg |-> made, utils |-> TRUE, error |-> ""]

\* file.info(f)$mtime
file_mtime(file) == IF file.exists THEN file.mtime ELSE NA

\* as.character(mtime): the timestamp as text, at the text's resolution.
AsCharacter(mtime) == IF mtime = NA THEN NA ELSE mtime \div TicksPerStamp

\* (mutant) the loop stops after its first file.
AnyInputChanged_FirstOnly(input_files, cache_data, files) ==
  IF input_files = <<>> THEN FALSE
  ELSE LET f == Head(input_files)
       IN \/ ~files[f].exists
          \/ f \notin DOMAIN cache_data.input_files
          \/ AsCharacter(file_mtime(files[f])) # cache_data.input_files[f].text

\* should_rebuild's loop over input_files, with its early returns.
RECURSIVE AnyInputChanged(_, _, _)
AnyInputChanged(input_files, cache_data, files) ==
  IF input_files = <<>> THEN FALSE
  ELSE LET f == Head(input_files)
       IN IF ~files[f].exists THEN TRUE
          ELSE IF f \notin DOMAIN cache_data.input_files THEN TRUE
          ELSE IF AsCharacter(file_mtime(files[f])) # cache_data.input_files[f].text THEN TRUE
          ELSE AnyInputChanged(Tail(input_files), cache_data, files)

should_rebuild(force, cache_data, input_files, files) ==
  IF force THEN TRUE
  ELSE IF ~cache_data.exists THEN TRUE
  ELSE AnyInputChanged(input_files, cache_data, files)

\* (mutant) the record holds the time of the run, later than any input's mtime.
save_cache_metadata_RunTime(input_files, files) ==
  [exists |-> TRUE,
   input_files |-> [f \in Range(input_files) |->
                      [text |-> AsCharacter(file_mtime(files[f])) + 1,
                       raw |-> file_mtime(files[f])]]]

\* (mutant) only the first input file is recorded.
save_cache_metadata_FirstOnly(input_files, files) ==
  [exists |-> TRUE,
   input_files |-> [f \in {Head(input_files)} |->
                      [text |-> AsCharacter(file_mtime(files[f])),
                       raw |-> file_mtime(files[f])]]]

\* save_cache_metadata: the record written for input_files.  text is what the
\* JSON file holds; raw is the mtime it was printed from (not readable by the code).
save_cache_metadata(input_files, files) ==
  [exists |-> TRUE,
   input_files |-> [f \in Range(input_files) |->
                      [text |-> AsCharacter(file_mtime(files[f])), raw |-> file_mtime(files[f])]]]

\* ------------------------------------------------------------- table contents
\* Numbers are integers: growth in tenths of a percent, wage_index, risk scores,
\* percentiles and weights in thousandths, the composite index in millionths.
\* NA stands for R's NA and NaN.
NoTables == [labor_df |-> <<>>, credential_df |-> <<>>, peer_df |-> <<>>,
             market_risk |-> <<>>, joined |-> <<>>,
             credential_pressure |-> <<>>, credential_summary |-> <<>>,
             ipeds_df |-> <<>>, peer_supply |-> <<>>,
             oews_df |-> <<>>, proj_df |-> <<>>, labor_summary |-> <<>>]


\* ------------------------------------------------------------- 01_labor_market_trends.R
build_shrs_soc_crosswalk ==
  [p \in {"CSD_SLP", "CSD_AuD", "CSD_UG", "SMN_AT", "SMN_DN", "SMN_SS", "SMN_UG"} |->
     CASE p = "CSD_SLP" -> "291127"
       [] p = "CSD_AuD" -> "291181"
       [] p = "CSD_UG" -> "291127"
       [] p = "SMN_AT" -> "299091"
       [] p = "SMN_DN" -> "291031"
       [] p = "SMN_SS" -> "271029"
       [] p = "SMN_UG" -> "271029"]

\* A percentage held in memory is a double: an integer number of steps of
\* 1/DoublesPerStep tenths of a percent. write.csv prints a number with 15
\* significant digits, here the nearest tenth, and read_csv reads that back.
Percent(tenths) == tenths * DoublesPerStep

write_csv_number(x) ==
  IF x = NA THEN NA ELSE (x + DoublesPerStep \div 2) \div DoublesPerStep

\* (mutant) a growth of exactly 15 percent is Moderate Growth.
growth_category_Strict(change_percent) ==
  IF change_percent = NA THEN "Unknown"
  ELSE IF change_percent > Percent(150) THEN "High Growth"
  ELSE IF change_percent >= Percent(80) THEN "Moderate Growth"
  ELSE IF change_percent >= 0 THEN "Slow Growth"
  ELSE "Decline"

\* case_when on change_percent as the labor stage holds it in memory.
growth_category(change_percent) ==
  IF change_percent = NA THEN "Unknown"
  ELSE IF change_percent >= Percent(150) THEN "High Growth"
  ELSE IF change_percent >= Percent(80) THEN "Moderate Growth"
  ELSE IF change_percent >= 0 THEN "Slow Growth"
  ELSE "Decline"

\* median(x, na.rm = TRUE) times two: the sum of the two middle values (the middle
\* one counted twice when the count is odd); NA when no value is known.
TwiceMedian(x) ==
  LET known == {p \in DOMAIN x : x[p] # NA}
      n == Cardinality(known)
      kth(k) == CHOOSE v \in {x[p] : p \in known} :
                  /\ Cardinality({p \in known : x[p] < v}) < k
                  /\ k <= Cardinality({p \in known : x[p] <= v})
  IN IF n = 0 THEN NA ELSE kth((n + 1) \div 2) + kth(n \div 2 + 1)

\* compute_labor_market_summary: the crosswalk left-joined to both tables by
\* soc_code (a program without a matching row gets NA), wage_index in thousandths.
compute_labor_market_summary(oews_df, proj_df, crosswalk_df) ==
  LET wage == [p \in DOMAIN crosswalk_df |->
                 IF crosswalk_df[p] \in DOMAIN oews_df
                 THEN oews_df[crosswalk_df[p]] ELSE NA]
      change == [p \in DOMAIN crosswalk_df |->
                   IF crosswalk_df[p] \in DOMAIN proj_df
                   THEN proj_df[crosswalk_df[p]] ELSE NA]
      grand_median_wage2 == TwiceMedian(wage)
  IN [p \in DOMAIN crosswalk_df |->
        [median_wage_annual |-> wage[p],
         wage_index |-> IF wage[p] = NA THEN NA
                        ELSE (wage[p] * 2000) \div grand_median_wage2,
         projected_growth_pct |-> change[p],
         growth_category |-> growth_category(change[p])]]

\* ------------------------------------------------------------- 02_credential_pressure.R
\* A missing cell of a text column: read_csv reads the text NA as missing, and no
\* comparison with it is TRUE.
NA_character == "NA"
allowed_values == {"Up", "Stable", "Down", "Unknown"}

\* (mutant) rows with a missing exam_trend are not counted as invalid.
validate_exam_trends_SkipsNA(df) ==
  \A p \in DOMAIN df : df[p].exam_trend \in allowed_values \cup {NA_character}

\* validate_exam_trends passes: no row has an exam_trend outside allowed_values
\* (NA %in% allowed_values is FALSE, so a missing value is invalid).
validate_exam_trends(df) ==
  \A p \in DOMAIN df : df[p].exam_trend \in allowed_values

\* (mutant) the rule for any Unknown comes before the rule for No + Unknown.
credential_risk_score_UnknownFirst(licensure_required, exam_trend) ==
  IF exam_trend = "Unknown" THEN 400
  ELSE IF licensure_required = "Yes" /\ exam_trend = "Stable" THEN 300
  ELSE IF licensure_required = "Yes" /\ exam_trend = "Up" THEN 500
  ELSE IF licensure_required = "Yes" /\ exam_trend = "Down" THEN 600
  ELSE 300

\* case_when: the first rule that is TRUE gives the score (thousandths).
credential_risk_score(licensure_required, exam_trend) ==
  IF licensure_required = "No" /\ exam_trend = "Unknown" THEN 200
  ELSE IF licensure_required = "Yes" /\ exam_trend = "Stable" THEN 300
  ELSE IF licensure_required = "Yes" /\ exam_trend = "Up" THEN 500
  ELSE IF licensure_required = "Yes" /\ exam_trend = "Down" THEN 600
  ELSE IF exam_trend = "Unknown" THEN 400
  ELSE 300

credential_risk_category(score) ==
  IF score <= 250 THEN "Low"
  ELSE IF score <= 450 THEN "Moderate"
  ELSE "High"

\* credential_summary: one row per input row.
credential_summary(credential_df) ==
  [p \in DOMAIN credential_df |->
     LET score == credential_risk_score(credential_df[p].licensure_required,
                                        credential_df[p].exam_trend)
     IN [licensure_required |-> credential_df[p].licensure_required,
         exam_trend |-> credential_df[p].exam_trend,
         credential_risk_score |-> score,
         credential_risk_category |-> credential_risk_category(score)]]

\* ------------------------------------------------------------- 03_peer_program_supply.R
build_shrs_ipeds_crosswalk ==
  [p \in {"CSD_SLP", "CSD_AuD", "CSD_UG", "SMN_AT", "SMN_DN", "SMN_SS", "SMN_UG"} |->
     CASE p = "CSD_SLP" -> "Speech-Language"
       [] p = "CSD_AuD" -> "Audiology"
       [] p = "CSD_UG" -> "Speech-Language"
       [] p = "SMN_AT" -> "Athletic Training"
       [] p = "SMN_DN" -> "Dietetics"
       [] p = "SMN_SS" -> "Exercise Science"
       [] p = "SMN_UG" -> "Exercise Science"]

\* The regions of the table, in the order arrange(program, region) gives them.
Regions == <<"Mid-Atlantic", "Northeast">>

\* left_join(ipeds_df, by = "program_type") then filter(!is.na(region)): one row
\* <<program, region>> per IPEDS row <<region, program_type>> of the program's type.
JoinedRows(ipeds_df) ==
  {k \in (DOMAIN build_shrs_ipeds_crosswalk) \X Range(Regions) :
     <<k[2], build_shrs_ipeds_crosswalk[k[1]]>> \in DOMAIN ipeds_df}

\* percent_rank of row k within its group (region): (min_rank - 1) / (n - 1) in
\* thousandths, over the rows with a known num_programs; NA for a missing
\* num_programs, and the NaN of a group with one known row is kept as NA.
percent_rank(num, k) ==
  LET known == {j \in DOMAIN num : j[2] = k[2] /\ num[j] # NA}
      min_rank == 1 + Cardinality({j \in known : num[j] < num[k]})
  IN IF num[k] = NA \/ Cardinality(known) = 1 THEN NA
     ELSE (1000 * (min_rank - 1)) \div (Cardinality(known) - 1)

saturation_index(saturation_percentile) ==
  IF saturation_percentile # NA /\ saturation_percentile <= 330 THEN "Low"
  ELSE IF saturation_percentile # NA /\ saturation_percentile <= 670 THEN "Medium"
  ELSE "High"

peer_supply(ipeds_df) ==
  LET num == [k \in JoinedRows(ipeds_df) |->
                ipeds_df[<<k[2], build_shrs_ipeds_crosswalk[k[1]]>>]]
  IN [k \in DOMAIN num |->
        [num_programs |-> num[k],
         saturation_percentile |-> percent_rank(num, k),
         saturation_index |-> saturation_index(percent_rank(num, k))]]

\* A table that was read passes the checks the script makes on its content.
ContentValid(f) ==
  f = CREDENTIAL_FILE => validate_exam_trends(tables.credential_pressure)

\* ------------------------------------------------------------- 01..05 stage scripts
\* The first file of checks, in order, that does not exist ("" when all do).
RECURSIVE FirstMissing(_, _)
FirstMissing(checks, files) ==
  IF checks = <<>> THEN ""
  ELSE IF ~files[Head(checks)].exists THEN Head(checks)
  ELSE FirstMissing(Tail(checks), files)

\* The first table, in reading order, that fails its validation ("" when none does).
RECURSIVE FirstMalformed(_, _)
FirstMalformed(validated, files) ==
  IF validated = <<>> THEN ""
  ELSE IF files[Head(validated)].kind = "malformed" \/ ~ContentValid(Head(validated))
       THEN Head(validated)
  ELSE FirstMalformed(Tail(validated), files)

\* The tables of a stage: what write_dual_format writes (csv and md).
Tables(s) == {f \in Outputs(s) : f \notin Charts}

\* The chart of the labor script maps employment to scale_size_continuous: ggsave
\* stops on an OEWS table whose employment column did not read as numbers (a
\* suppressed value such as "**" makes read_csv read the column as text).  No
\* check earlier in the script looks at the type of that column.
ChartStops(s, files) == s = LABOR /\ files[OEWS_FILE].kind = "unplottable"

\* (mutant) the cache record is saved once the inputs are read, before they are
\* validated.
StageBody_SaveBeforeValidate(s, files) ==
  LET missing == FirstMissing(ExistenceChecks(s), files)
      bad == FirstMalformed(ValidatedFiles(s), files)
  IN IF missing # ""
     THEN IF missing \in ExternalFiles
          THEN [outcome |-> "aborted", written |-> {TemplateOf(missing)},
                error |-> [kind |-> "input not found", file |-> missing], saved |-> FALSE]
          ELSE [outcome |-> "aborted", written |-> {},
                error |-> [kind |-> "run upstream script first", file |-> missing],
                saved |-> FALSE]
     ELSE IF bad # ""
          THEN [outcome |-> "aborted", written |-> {},
                error |-> [kind |-> "malformed input", file |-> bad], saved |-> TRUE]
          ELSE IF ChartStops(s, files)
               THEN [outcome |-> "aborted", written |-> Tables(s),
                     error |-> [kind |-> "chart stopped", file |-> OEWS_FILE],
                     saved |-> FALSE]
               ELSE [outcome |-> "completed", written |-> Outputs(s), error |-> NoError,
                     saved |-> TRUE]

\* A stage script below its cache gate: existence checks (template or error),
\* read and validate, compute, write the tables, draw the chart, save the cache
\* record.
StageBody(s, files) ==
  LET missing == FirstMissing(ExistenceChecks(s), files)
      bad == FirstMalformed(ValidatedFiles(s), files)
  IN IF missing # ""
     THEN IF missing \in ExternalFiles
          THEN [outcome |-> "aborted", written |-> {TemplateOf(missing)},
                error |-> [kind |-> "input not found", file |-> missing], saved |-> FALSE]
          ELSE [outcome |-> "aborted", written |-> {},
                error |-> [kind |-> "run upstream script first", file |-> missing],
                saved |-> FALSE]
     ELSE IF bad # ""
          THEN [outcome |-> "aborted", written |-> {},
                error |-> [kind |-> "malformed input", file |-> bad], saved |-> FALSE]
          ELSE IF ChartStops(s, files)
               THEN [outcome |-> "aborted", written |-> Tables(s),
                     error |-> [kind |-> "chart stopped", file |-> OEWS_FILE],
                     saved |-> FALSE]
               ELSE [outcome |-> "completed", written |-> Outputs(s), error |-> NoError,
                     saved |-> TRUE]

\* ------------------------------------------------------------- 05_market_risk_index.R
\* NA-propagating arithmetic.
Mul(a, b) == IF a = NA \/ b = NA THEN NA ELSE a * b
Add(a, b) == IF a = NA \/ b = NA THEN NA ELSE a + b
Min(a, b) == IF a < b THEN a ELSE b
MaxOf(S) == CHOOSE x \in S : \A y \in S : y <= x

RECURSIVE SumSeq(_)
SumSeq(q) == IF q = <<>> THEN 0 ELSE Head(q) + SumSeq(Tail(q))

\* case_when on projected_growth_pct (thresholds 15, 8, 0 percent).
labor_demand_risk(projected_growth_pct) ==
  IF projected_growth_pct = NA THEN 500
  ELSE IF projected_growth_pct >= 150 THEN 100
  ELSE IF projected_growth_pct >= 80 THEN 300
  ELSE IF projected_growth_pct >= 0 THEN 600
  ELSE 900

\* (mutant) the wage index is not divided by its maximum.
wage_level_risk_NoMax(wage_index, labor_df) ==
  IF wage_index = NA THEN NA ELSE 1000 - wage_index

\* 1 - pmin(wage_index / max(wage_index, na.rm = TRUE), 1.0), to the thousandth.
wage_level_risk(wage_index, labor_df) ==
  LET known == {labor_df[p].wage_index : p \in DOMAIN labor_df} \ {NA}
  IN IF wage_index = NA \/ MaxOf(known) = 0 THEN NA
     ELSE 1000 - Min((wage_index * 1000) \div MaxOf(known), 1000)

\* mean(saturation_percentile, na.rm = TRUE) of a program's rows, to the thousandth.
peer_saturation_risk(percentiles) ==
  LET known == SelectSeq(percentiles, LAMBDA x : x # NA)
  IN IF known = <<>> THEN NA ELSE SumSeq(known) \div Len(known)

\* (mutant) the credential score is weighted with the peer weight.
market_risk_index_PeerWeightTwice(ld, wl, ps, cp, weights) ==
  Add(Add(Add(Mul(ld, weights[1]), Mul(wl, weights[2])), Mul(ps, weights[3])),
      Mul(cp, weights[3]))

\* The weighted sum of the four sub-scores (NA when one of them is).
market_risk_index(ld, wl, ps, cp, weights) ==
  Add(Add(Add(Mul(ld, weights[1]), Mul(wl, weights[2])), Mul(ps, weights[3])),
      Mul(cp, weights[4]))

\* case_when on the index: a comparison with NA is not TRUE, so NA falls through.
risk_category(index) ==
  IF index # NA /\ index <= 350000 THEN "Low Risk"
  ELSE IF index # NA /\ index <= 550000 THEN "Moderate Risk"
  ELSE "High Risk"

\* (mutant) the credential and peer scores are inner-joined: a program without a
\* row in one of them is dropped.
market_risk_InnerJoin(labor_df, credential_df, peer_df, weights) ==
  [p \in (DOMAIN labor_df) \cap (DOMAIN credential_df) \cap (DOMAIN peer_df) |->
     LET ld == labor_demand_risk(labor_df[p].projected_growth_pct)
         wl == wage_level_risk(labor_df[p].wage_index, labor_df)
         ps == IF p \in DOMAIN peer_df THEN peer_saturation_risk(peer_df[p]) ELSE NA
         cp == IF p \in DOMAIN credential_df THEN credential_df[p] ELSE NA
         index == market_risk_index(ld, wl, ps, cp, weights)
     IN [market_risk_index |-> index, risk_category |-> risk_category(index),
         labor_demand_risk |-> ld, wage_level_risk |-> wl,
         peer_saturation_risk |-> ps, credential_pressure_risk |-> cp]]

\* The rows of market_risk: one per labor_df row, the credential and peer scores
\* left-joined by program (NA where the program has no row there).
market_risk(labor_df, credential_df, peer_df, weights) ==
  [p \in DOMAIN labor_df |->
     LET ld == labor_demand_risk(labor_df[p].projected_growth_pct)
         wl == wage_level_risk(labor_df[p].wage_index, labor_df)
         ps == IF p \in DOMAIN peer_df THEN peer_saturation_risk(peer_df[p]) ELSE NA
         cp == IF p \in DOMAIN credential_df THEN credential_df[p] ELSE NA
         index == market_risk_index(ld, wl, ps, cp, weights)
     IN [market_risk_index |-> index, risk_category |-> risk_category(index),
         labor_demand_risk |-> ld, wage_level_risk |-> wl,
         peer_saturation_risk |-> ps, credential_pressure_risk |-> cp]]

\* A whole stage script sourced in the current session: the config guard, the
\* cache gate (quit on a valid cache ends the session), then the body.
RunScript(s) ==
  LET loaded == IF MARKET_CONFIG.defined
                THEN [ok |-> TRUE, cfg |-> MARKET_CONFIG, utils |-> utils, error |-> ""]
                ELSE SourceConfig(MARKET_CONFIG, utils)
      stopped(kind) == [outcome |-> "aborted", gate |-> FALSE, rebuild |-> FALSE,
                        written |-> {}, error |-> [kind |-> kind, file |-> ""],
                        saved |-> FALSE, weights |-> <<>>,
                        cfg |-> loaded.cfg, utils |-> loaded.utils]
  IN IF ~loaded.ok THEN stopped(loaded.error)
     ELSE IF ~loaded.utils THEN stopped("could not find function should_rebuild")
     ELSE IF ~should_rebuild(loaded.cfg.FORCE_REBUILD, cache[s], InputFiles(s), fs)
          THEN [outcome |-> "skipped", gate |-> TRUE, rebuild |-> FALSE, written |-> {},
                error |-> NoError, saved |-> FALSE, weights |-> <<>>,
                cfg |-> NoCfg, utils |-> FALSE]
          ELSE LET b == StageBody(s, fs)
               IN [outcome |-> b.outcome, gate |-> TRUE, rebuild |-> TRUE,
                   written |-> b.written, error |-> b.error, saved |-> b.saved,
                   weights |-> IF s = RISK /\ b.outcome = "completed"
                               THEN loaded.cfg.risk_weights ELSE <<>>,
                   cfg |-> loaded.cfg, utils |-> loaded.utils]

\* The contents of the tables after stage s wrote its own: the risk stage reads
\* the credential summary back with select(program, credential_risk_score).
WriteTables(s, weights) ==
  CASE s = RISK ->
         [tables EXCEPT !.market_risk =
            market_risk(tables.labor_df, tables.credential_df, tables.peer_df, weights)]
    [] s = CREDENTIAL ->
         LET out == credential_summary(tables.credential_pressure)
         IN [tables EXCEPT !.credential_summary = out,
                           !.credential_df =
                              [p \in DOMAIN out |-> out[p].credential_risk_score]]
    [] s = LABOR ->
         LET out == compute_labor_market_summary(tables.oews_df, tables.proj_df,
                                                 build_shrs_soc_crosswalk)
         IN [tables EXCEPT !.labor_summary = out,
                           !.labor_df =
                              [p \in DOMAIN out |->
                                 [projected_growth_pct |->
                                    write_csv_number(out[p].projected_growth_pct),
                                  wage_index |-> out[p].wage_index]]]
    [] s = PEER ->
         LET out == peer_supply(tables.ipeds_df)
             rows(p) == SelectSeq(Regions, LAMBDA r : <<p, r>> \in DOMAIN out)
         IN [tables EXCEPT !.peer_supply = out,
                           !.peer_df =
                              [p \in {k[1] : k \in DOMAIN out} |->
                                 [i \in 1..Len(rows(p)) |->
                                    out[<<p, rows(p)[i]>>].saturation_percentile]]]
    [] OTHER -> tables

\* Files some script stats: the inputs of should_rebuild.
StatFiles == UNION {Range(InputFiles(s)) : s \in Stages}

\* The readings the next write of a file can get.
FreshReadings(f, files) ==
  IF f \in StatFiles /\ files[f].mtime # NA
  THEN {t \in (files[f].mtime + 1)..(files[f].mtime + TicksPerStamp) : t <= MaxTime}
  ELSE {0}

\* The files after a run wrote `written`, its primary table at reading t.
WriteFiles(files, written, t) ==
  [f \in TrackedFiles |->
     IF f \in written THEN [exists |-> TRUE, mtime |-> t, kind |-> "ok"] ELSE files[f]]

Invoke(s) ==
  LET r == RunScript(s)
  IN \E t \in (IF PrimaryOutput(s) \in r.written
               THEN FreshReadings(PrimaryOutput(s), fs) ELSE {0}) :
       /\ fs' = WriteFiles(fs, r.written, t)
       /\ cache' = IF r.saved
                   THEN [cache EXCEPT ![s] = save_cache_metadata(InputFiles(s), fs')]
                   ELSE cache
       /\ MARKET_CONFIG' = r.cfg
       /\ utils' = r.utils
       /\ last' = [stage |-> s, outcome |-> r.outcome, gate |-> r.gate,
                   rebuild |-> r.rebuild, written |-> r.written, error |-> r.error,
                   saved |-> r.saved, weights |-> r.weights, value |-> ""]
       /\ tables' = IF PrimaryOutput(s) \in r.written
                    THEN WriteTables(s, r.weights) ELSE tables
       /\ UNCHANGED <<edits, envRoot, pathsFile, fileWeights>>

\* ------------------------------------------------------------- the user
SessionVars == <<MARKET_CONFIG, utils>>
ConfigFiles == <<envRoot, pathsFile, fileWeights>>

\* An external input is supplied or replaced (well-formed or not).
SupplyInput(f, kind) ==
  /\ edits < MaxEdits
  /\ edits' = edits + 1
  /\ \E t \in FreshReadings(f, fs) :
       fs' = [fs EXCEPT ![f] = [exists |-> TRUE, mtime |-> t, kind |-> kind]]
  /\ last' = NoRun
  /\ UNCHANGED <<cache, SessionVars, ConfigFiles, tables>>

\* A file some script stats is deleted (an input, or an upstream table).
RemoveFile(f) ==
  /\ edits < MaxEdits
  /\ fs[f].exists
  /\ edits' = edits + 1
  /\ fs' = [fs EXCEPT ![f] = [exists |-> FALSE, mtime |-> fs[f].mtime, kind |-> "none"]]
  /\ last' = NoRun
  /\ UNCHANGED <<cache, SessionVars, ConfigFiles, tables>>

\* MARKET_CONFIG$FORCE_REBUILD <- b, typed in a session that loaded the config
\* (switching it on is an intervention).
SetForceRebuild(b) ==
  /\ MARKET_CONFIG.defined
  /\ MARKET_CONFIG.FORCE_REBUILD # b
  /\ b => edits < MaxEdits
  /\ edits' = IF b THEN edits + 1 ELSE edits
  /\ MARKET_CONFIG' = [MARKET_CONFIG EXCEPT !.FORCE_REBUILD = b]
  /\ last' = NoRun
  /\ UNCHANGED <<fs, cache, utils, ConfigFiles, tables>>

\* A fresh R process (Rscript per stage, or R restarted).
NewSession ==
  /\ MARKET_CONFIG.defined \/ utils
  /\ MARKET_CONFIG' = NoCfg
  /\ utils' = FALSE
  /\ last' = NoRun
  /\ UNCHANGED <<edits, fs, cache, ConfigFiles, tables>>

\* source("analysis/04_market_analysis/00_market_config.R") typed by the user.
LoadConfig ==
  LET r == SourceConfig(MARKET_CONFIG, utils)
  IN /\ MARKET_CONFIG' = r.cfg
     /\ utils' = r.utils
     /\ last' = [NoRun EXCEPT !.stage = "config",
                              !.outcome = IF r.ok THEN "completed" ELSE "aborted",
                              !.error = [kind |-> r.error, file |-> ""]]
     /\ UNCHANGED <<edits, fs, cache, ConfigFiles, tables>>

\* ------------------------------------------------------------- the pipeline
\* What a supplied file can hold: a table that passes the script, one that fails
\* validate_required_columns (or validate_exam_trends), and for the OEWS file one
\* with every required column but an employment column that is not numeric.
InputKinds(f) == {"ok", "malformed"} \cup (IF f = OEWS_FILE THEN {"unplottable"} ELSE {})

Init ==
  /\ edits = 0
  /\ \E present \in SUBSET ExternalFiles :
       fs = [f \in TrackedFiles |->
               IF f \in present THEN [exists |-> TRUE, mtime |-> 0, kind |-> "ok"]
               ELSE NoFile]
  /\ cache = [s \in Stages |-> NoRec]
  /\ MARKET_CONFIG = NoCfg
  /\ utils = FALSE
  /\ envRoot = "/data"
  /\ pathsFile = [exists |-> FALSE, defines |-> FALSE, DATA_ROOT |-> ""]
  /\ fileWeights = DefaultWeights
  /\ tables = NoTables
  /\ last = NoRun

Next ==
  \/ \E f \in ExternalFiles : \E k \in InputKinds(f) : SupplyInput(f, k)
  \/ \E f \in StatFiles : RemoveFile(f)
  \/ \E b \in BOOLEAN : SetForceRebuild(b)
  \/ NewSession
  \/ LoadConfig
  \/ \E s \in Stages : Invoke(s)

Spec == Init /\ [][Next]_vars

\* The pipeline when nobody but the stages touches the output tables: the user
\* supplies, replaces and removes external inputs only.
NextKept ==
  \/ \E f \in ExternalFiles : \E k \in InputKinds(f) : SupplyInput(f, k)
  \/ \E f \in ExternalFiles : RemoveFile(f)
  \/ \E b \in BOOLEAN : SetForceRebuild(b)
  \/ NewSession
  \/ LoadConfig
  \/ \E s \in Stages : Invoke(s)

SpecKept == Init /\ [][NextKept]_vars

\* ------------------------------------------------------------- should_rebuild alone
\* should_rebuild called on arbitrary arguments: any flag, any cache record (also
\* one lacking some input, or holding other times), any files.
Stamps == {AsCharacter(t) : t \in 0..MaxTime}
FileChoices == {NoFile} \cup {[exists |-> TRUE, mtime |-> t, kind |-> "ok"] : t \in 0..MaxTime}
RecordChoices(s) ==
  {NoRec} \cup
  {[exists |-> TRUE, input_files |-> g] :
     g \in UNION {[D -> {[text |-> x, raw |-> NA] : x \in Stamps}] :
                    D \in SUBSET Range(InputFiles(s))}}

InitGate ==
  /\ edits = 0
  /\ \E s \in Stages :
       /\ \E g \in [Range(InputFiles(s)) -> FileChoices] :
            fs = [f \in TrackedFiles |-> IF f \in DOMAIN g THEN g[f] ELSE NoFile]
       /\ \E rec \in RecordChoices(s) :
            cache = [x \in Stages |-> IF x = s THEN rec ELSE NoRec]
  /\ \E force \in BOOLEAN :
       MARKET_CONFIG = [defined |-> TRUE, data_root |-> "/data", FORCE_REBUILD |-> force,
                        risk_weights |-> DefaultWeights]
  /\ utils = TRUE
  /\ envRoot = "/data"
  /\ pathsFile = [exists |-> FALSE, defines |-> FALSE, DATA_ROOT |-> ""]
  /\ fileWeights = DefaultWeights
  /\ tables = NoTables
  /\ last = NoRun

GateCall(s) ==
  /\ last' = [NoRun EXCEPT !.stage = s, !.outcome = "gate", !.gate = TRUE,
                           !.rebuild = should_rebuild(MARKET_CONFIG.FORCE_REBUILD, cache[s],
                                                      InputFiles(s), fs)]
  /\ UNCHANGED <<edits, fs, cache, SessionVars, ConfigFiles, tables>>

NextGate == \E s \in Stages : GateCall(s)

SpecGate == InitGate /\ [][NextGate]_vars

\* ------------------------------------------------------------- claims
\* A stage's cache record matches its inputs: the record exists and every input
\* exists, is in the record, and prints the time the record holds for it.
RecordMatches(s) ==
  /\ cache[s].exists
  /\ \A f \in Range(InputFiles(s)) :
       /\ fs[f].exists
       /\ f \in DOMAIN cache[s].input_files
       /\ AsCharacter(fs[f].mtime) = cache[s].input_files[f].text

\* C1: should_rebuild returns TRUE whenever FORCE_REBUILD is set; with the flag off
\* it returns FALSE exactly when the stage has a cache record and every input file
\* exists with the modification time the record holds for it (both as printed by
\* as.character), TRUE otherwise: no record, an input missing, an input absent from
\* the record, a differing time.
C1_ShouldRebuild ==
  last.outcome = "gate" =>
    last.rebuild = (MARKET_CONFIG.FORCE_REBUILD \/ ~RecordMatches(last.stage))

\* should_rebuild answered FALSE for the stage with three inputs.
C1_Witness ==
  /\ last.outcome = "gate"
  /\ last.stage = RISK
  /\ ~last.rebuild

\* ------------------------------------------------------------- the configuration
\* One session after another on a machine whose configuration the user edits:
\* the environment variable, the override file, the weights in 00_market_config.R.
EnvChoices == {""} \cup DirNames

SetEnvRoot(d) ==
  /\ d # envRoot
  /\ envRoot' = d
  /\ last' = NoRun
  /\ UNCHANGED <<edits, fs, cache, SessionVars, pathsFile, fileWeights, tables>>

WritePathsFile(p) ==
  /\ p # pathsFile
  /\ pathsFile' = p
  /\ last' = NoRun
  /\ UNCHANGED <<edits, fs, cache, SessionVars, envRoot, fileWeights, tables>>

EditWeights(w) ==
  /\ w # fileWeights
  /\ fileWeights' = w
  /\ last' = NoRun
  /\ UNCHANGED <<edits, fs, cache, SessionVars, envRoot, pathsFile, tables>>

\* get_data_root() called as the configuration script calls it.
CallGetDataRoot ==
  LET r == get_data_root(envRoot, pathsFile)
  IN /\ last' = [NoRun EXCEPT !.stage = "get_data_root",
                              !.outcome = IF r.ok THEN "completed" ELSE "aborted",
                              !.error = [kind |-> r.error, file |-> ""],
                              !.value = r.path]
     /\ UNCHANGED <<edits, fs, cache, SessionVars, ConfigFiles, tables>>

InitConfig ==
  /\ edits = 0
  /\ fs = [f \in TrackedFiles |->
             IF f \in ExternalFiles THEN [exists |-> TRUE, mtime |-> 0, kind |-> "ok"]
             ELSE NoFile]
  /\ cache = [s \in Stages |-> NoRec]
  /\ MARKET_CONFIG = NoCfg
  /\ utils = FALSE
  /\ envRoot \in EnvChoices
  /\ pathsFile \in PathsFiles
  /\ fileWeights \in WeightChoices
  /\ tables = NoTables
  /\ last = NoRun

NextConfig ==
  \/ \E d \in EnvChoices : SetEnvRoot(d)
  \/ \E p \in PathsFiles : WritePathsFile(p)
  \/ \E w \in WeightChoices : EditWeights(w)
  \/ CallGetDataRoot
  \/ LoadConfig
  \/ NewSession
  \/ \E s \in Stages : Invoke(s)

SpecConfig == InitConfig /\ [][NextConfig]_vars

\* ------------------------------------------------------------- the risk stage alone
\* The risk stage run on upstream tables drawn row by row: a growth on each side of
\* every threshold or NA, a wage index or NA, a credential score or no row, peer
\* percentiles or no row; the weights that pass the validation of the config.
Programs == {"CSD_SLP", "CSD_AuD"}
GrowthChoices == {NA, -20, 0, 80, 150}
WageChoices == {NA, 500, 2000}
ScoreChoices == {200, 600}
PeerChoices == {<<0>>, <<500, 1000>>}

LaborTables ==
  [Programs -> [projected_growth_pct : GrowthChoices, wage_index : WageChoices]]
CredentialTables == UNION {[D -> ScoreChoices] : D \in SUBSET Programs}
PeerTables == UNION {[D -> PeerChoices] : D \in SUBSET Programs}

InitRisk ==
  /\ edits = 0
  /\ fs = [f \in TrackedFiles |->
             IF f \in UNION {Range(InputFiles(RISK))}
             THEN [exists |-> TRUE, mtime |-> 0, kind |-> "ok"] ELSE NoFile]
  /\ cache = [s \in Stages |-> NoRec]
  /\ MARKET_CONFIG = NoCfg
  /\ utils = FALSE
  /\ envRoot = "/data"
  /\ pathsFile = [exists |-> FALSE, defines |-> FALSE, DATA_ROOT |-> ""]
  /\ fileWeights \in {w \in WeightChoices : ~WeightsRejected(w)}
  /\ \E l \in LaborTables, c \in CredentialTables, q \in PeerTables :
       tables = [NoTables EXCEPT !.labor_df = l, !.credential_df = c, !.peer_df = q]
  /\ last = NoRun

NextRisk == Invoke(RISK)

SpecRisk == InitRisk /\ [][NextRisk]_vars

\* ------------------------------------------------------------- the composite alone
\* The mutate() that computes market_risk_index and risk_category, applied to one
\* joined row of sub-scores drawn from the values the lookups give, the ends and
\* the middle of the unit range, and NA where a join or a division can leave one.
LaborDemandChoices == {100, 300, 500, 600, 900}
WageLevelChoices == {NA, 0, 200, 750, 1000}
PeerRiskChoices == {NA, 0, 500, 1000}
CredentialChoices == {NA, 200, 300, 400, 500, 600}

InitComposite ==
  /\ edits = 0
  /\ fs = [f \in TrackedFiles |-> NoFile]
  /\ cache = [s \in Stages |-> NoRec]
  /\ \E w \in {x \in WeightChoices : ~WeightsRejected(x)} :
       /\ fileWeights = w
       /\ MARKET_CONFIG = [defined |-> TRUE, data_root |-> "/data",
                           FORCE_REBUILD |-> FALSE, risk_weights |-> w]
  /\ utils = TRUE
  /\ envRoot = "/data"
  /\ pathsFile = [exists |-> FALSE, defines |-> FALSE, DATA_ROOT |-> ""]
  /\ \E ld \in LaborDemandChoices, wl \in WageLevelChoices, ps \in PeerRiskChoices,
        cp \in CredentialChoices :
       tables = [NoTables EXCEPT !.joined =
                   [labor_demand_risk |-> ld, wage_level_risk |-> wl,
                    peer_saturation_risk |-> ps, credential_pressure_risk |-> cp]]
  /\ last = NoRun

MutateComposite ==
  LET row == tables.joined
      index == market_risk_index(row.labor_demand_risk, row.wage_level_risk,
                                 row.peer_saturation_risk, row.credential_pressure_risk,
                                 MARKET_CONFIG.risk_weights)
  IN /\ tables' = [tables EXCEPT !.market_risk =
                     [market_risk_index |-> index, risk_category |-> risk_category(index)]]
     /\ last' = [NoRun EXCEPT !.stage = "composite", !.outcome = "completed",
                              !.weights = MARKET_CONFIG.risk_weights]
     /\ UNCHANGED <<edits, fs, cache, SessionVars, ConfigFiles>>

NextComposite == MutateComposite

SpecComposite == InitComposite /\ [][NextComposite]_vars

\* ------------------------------------------------------------- the credential stage alone
\* The credential stage run on an input table drawn row by row: licensure Yes, No,
\* missing or spelt otherwise; every allowed exam_trend, a missing and a foreign one.
LicensureChoices == {"Yes", "No", "yes", NA_character}
TrendChoices == allowed_values \cup {NA_character, "Rising"}

InitCredential ==
  /\ edits = 0
  /\ fs = [f \in TrackedFiles |->
             IF f = CREDENTIAL_FILE THEN [exists |-> TRUE, mtime |-> 0, kind |-> "ok"]
             ELSE NoFile]
  /\ cache = [s \in Stages |-> NoRec]
  /\ MARKET_CONFIG = NoCfg
  /\ utils = FALSE
  /\ envRoot = "/data"
  /\ pathsFile = [exists |-> FALSE, defines |-> FALSE, DATA_ROOT |-> ""]
  /\ fileWeights = DefaultWeights
  /\ \E rows \in [Programs -> [licensure_required : LicensureChoices,
                               exam_trend : TrendChoices]] :
       tables = [NoTables EXCEPT !.credential_pressure = rows]
  /\ last = NoRun

NextCredential == Invoke(CREDENTIAL)

SpecCredential == InitCredential /\ [][NextCredential]_vars

\* ------------------------------------------------------------- the peer stage alone
\* The peer stage run on an IPEDS table drawn row by row: in the first region any
\* of the five program types with one of three counts, in the second two types
\* with a count or a missing count.
ProgramTypes == Range(build_shrs_ipeds_crosswalk)
CountChoices == {12, 45, 78}

IpedsTables ==
  {a @@ b :
     a \in UNION {[D -> CountChoices] : D \in SUBSET ({Regions[1]} \X ProgramTypes)},
     b \in UNION {[D -> {NA, 18}] :
                    D \in SUBSET ({Regions[2]} \X {"Audiology", "Dietetics"})}}

InitPeer ==
  /\ edits = 0
  /\ fs = [f \in TrackedFiles |->
             IF f = IPEDS_FILE THEN [exists |-> TRUE, mtime |-> 0, kind |-> "ok"]
             ELSE NoFile]
  /\ cache = [s \in Stages |-> NoRec]
  /\ MARKET_CONFIG = NoCfg
  /\ utils = FALSE
  /\ envRoot = "/data"
  /\ pathsFile = [exists |-> FALSE, defines |-> FALSE, DATA_ROOT |-> ""]
  /\ fileWeights = DefaultWeights
  /\ \E ipeds \in IpedsTables : tables = [NoTables EXCEPT !.ipeds_df = ipeds]
  /\ last = NoRun

NextPeer == Invoke(PEER)

SpecPeer == InitPeer /\ [][NextPeer]_vars

\* ------------------------------------------------------------- the labor and risk stages
\* The labor stage run on BLS tables drawn row by row, followed by the risk stage:
\* the projections of two occupations take the example values, each threshold,
\* the double just below a threshold, or have no row; the others are the template's.
ChangeChoices ==
  {Percent(196), Percent(104), Percent(-20), Percent(150), Percent(150) - 1,
   Percent(80), Percent(80) - 1, 0, Percent(-1)}

ProjTables ==
  {a @@ b @@ ("299091" :> Percent(118) @@ "291031" :> Percent(117)
              @@ "271029" :> Percent(119)) :
     a \in UNION {[D -> ChangeChoices] : D \in SUBSET {"291127"}},
     b \in UNION {[D -> ChangeChoices] : D \in SUBSET {"291181"}}}

OewsTables ==
  {a @@ ("291127" :> 84140 @@ "299091" :> 51070 @@ "291031" :> 68650
         @@ "271029" :> 54730) :
     a \in UNION {[D -> {NA, 86490}] : D \in SUBSET {"291181"}}}

InitLabor ==
  /\ edits = 0
  /\ fs = [f \in TrackedFiles |->
             IF f \in {OEWS_FILE, PROJ_FILE, CREDENTIAL_SUMMARY_FILE, PEER_SUPPLY_FILE}
             THEN [exists |-> TRUE, mtime |-> 0, kind |-> "ok"] ELSE NoFile]
  /\ cache = [s \in Stages |-> NoRec]
  /\ MARKET_CONFIG = NoCfg
  /\ utils = FALSE
  /\ envRoot = "/data"
  /\ pathsFile = [exists |-> FALSE, defines |-> FALSE, DATA_ROOT |-> ""]
  /\ fileWeights = DefaultWeights
  /\ \E o \in OewsTables, q \in ProjTables :
       tables = [NoTables EXCEPT
                   !.oews_df = o, !.proj_df = q,
                   !.credential_df = [p \in DOMAIN build_shrs_soc_crosswalk |-> 300],
                   !.peer_df = [p \in DOMAIN build_shrs_soc_crosswalk |-> <<500>>]]
  /\ last = NoRun

NextLabor == Invoke(LABOR) \/ Invoke(RISK)

SpecLabor == InitLabor /\ [][NextLabor]_vars

\* ------------------------------------------------------------- pipeline claims
\* FORCE_REBUILD as the cache gate of the next script run will read it: a session
\* without MARKET_CONFIG loads the configuration first, which sets it FALSE.
ForceAtGate == MARKET_CONFIG.defined /\ MARKET_CONFIG.FORCE_REBUILD

\* No input of s changed since s last saved its cache record: each is there, with
\* the very mtime the record was printed from.
InputsUntouched(s) ==
  /\ cache[s].exists
  /\ \A f \in Range(InputFiles(s)) : fs[f].exists /\ fs[f].mtime = cache[s].input_files[f].raw

Templates(s) == {TemplateOf(f) : f \in Range(InputFiles(s)) \cap ExternalFiles}

\* An unchanged stage invoked again: what this step must then be.
C2_Step(s) ==
  (last'.stage = s /\ InputsUntouched(s) /\ ~ForceAtGate) =>
    /\ last'.outcome = "skipped"
    /\ last'.written = {}
    /\ fs' = fs
    /\ cache' = cache
    /\ InputsUntouched(s)' /\ ~ForceAtGate'

\* C2: once a stage has completed, invoking it again with FORCE_REBUILD off and no
\* input mtime changed is skipped: nothing is written, the stage's outputs and the
\* cache records stay as they are (so the next invocation is skipped as well).
C2_SkipUnchanged == [][\A s \in Stages : C2_Step(s)]_vars

\* The market risk stage, whose inputs are three upstream outputs, was skipped.
C2_Witness ==
  /\ last.stage = RISK
  /\ last.outcome = "skipped"
  /\ fs[RISK_INDEX_FILE].exists

\* Every input of s is there and passes the script's validation.
InputsUsable(s) ==
  /\ \A f \in Range(InputFiles(s)) : fs[f].exists
  /\ \A f \in Range(ValidatedFiles(s)) : fs[f].kind = "ok"

\* What C3 promises of the invocation of s that this step is.
C3_Recomputed(s) ==
  /\ last'.outcome = "completed"
  /\ last'.written = Outputs(s)
  /\ fs'[PrimaryOutput(s)].exists
  /\ PrimaryOutput(s) \in StatFiles => fs'[PrimaryOutput(s)].mtime > fs[PrimaryOutput(s)].mtime
  /\ RecordMatches(s)'
  /\ ~should_rebuild(FALSE, cache'[s], InputFiles(s), fs')

\* C3 (as stated): after a successful run, when the mtime of an input has changed,
\* the next invocation is not skipped: it recomputes, overwrites the outputs and
\* replaces the cache record with the current mtimes, so that the invocation after
\* it is skipped.
C3_AsStated ==
  [][\A s \in Stages :
       (/\ last'.stage = s
        /\ cache[s].exists
        /\ InputsUsable(s)
        /\ \E f \in Range(InputFiles(s)) : fs[f].mtime # cache[s].input_files[f].raw)
       => C3_Recomputed(s)]_vars

\* C3 (amended): the same, when the mtime of an input no longer prints, with
\* as.character, as the text the cache record holds for it.
C3_RecomputeOnChangedStamp ==
  [][\A s \in Stages :
       (/\ last'.stage = s
        /\ cache[s].exists
        /\ InputsUsable(s)
        /\ ~RecordMatches(s))
       => C3_Recomputed(s)]_vars

\* The labor stage ran again after its OEWS input was replaced: the record holds
\* the new stamp and the summary table was rewritten.
C3_Witness ==
  /\ last.stage = LABOR
  /\ last.outcome = "completed"
  /\ fs[OEWS_FILE].mtime = MaxTime
  /\ fs[LABOR_SUMMARY_FILE].mtime > 0
  /\ cache[LABOR].input_files[OEWS_FILE].text = AsCharacter(MaxTime)

\* The two ways an invocation of s may end.
C4_Step(s) ==
  last'.stage = s =>
    \/ /\ last'.outcome = "completed"
       /\ last'.written = Outputs(s)
       /\ fs'[PrimaryOutput(s)].exists
       /\ cache'[s] = save_cache_metadata(InputFiles(s), fs')
       /\ \A x \in Stages \ {s} : cache'[x] = cache[x]
    \/ /\ last'.outcome \in {"aborted", "skipped"}
       /\ last'.written \subseteq Templates(s)
       /\ Cardinality(last'.written) <= 1
       /\ fs' = fs
       /\ cache' = cache

\* C4: an invocation either completes, having written all of its stage's outputs
\* and its cache record, or ends having written at most one template of that stage,
\* leaving every output and cache record as it was.
C4_AllOrNothing == [][\A s \in Stages : C4_Step(s)]_vars

ExternalInputs(s) == Range(InputFiles(s)) \cap ExternalFiles
MissingExternal(s) == {f \in ExternalInputs(s) : ~fs[f].exists}

\* What C5 promises besides the template.
C5_Aborted(s) ==
  /\ last'.outcome = "aborted"
  /\ last'.gate /\ last'.rebuild
  /\ PrimaryOutput(s) \notin last'.written
  /\ fs' = fs
  /\ cache' = cache

TemplateDue(s) ==
  CASE s = LABOR -> IF ~fs[OEWS_FILE].exists THEN {TemplateOf(OEWS_FILE)}
                    ELSE {TemplateOf(PROJ_FILE)}
    [] s = CREDENTIAL -> {TemplateOf(CREDENTIAL_FILE)}
    [] s = PEER -> {TemplateOf(IPEDS_FILE)}
    [] s = WAGECOST -> IF ~fs[LABOR_SUMMARY_FILE].exists THEN {}
                       ELSE {TemplateOf(TUITION_FILE)}
    [] s = RISK -> {}

UpstreamOfRisk == {LABOR_SUMMARY_FILE, CREDENTIAL_SUMMARY_FILE, PEER_SUPPLY_FILE}

\* C6: the risk stage invoked with an upstream table absent is not skipped and
\* aborts on an error naming an absent table, writing nothing; it completes only
\* when the three tables exist.
C6_UpstreamRequired ==
  [][last'.stage = RISK =>
       /\ (\E f \in UpstreamOfRisk : ~fs[f].exists) =>
            /\ last'.outcome = "aborted"
            /\ last'.gate /\ last'.rebuild
            /\ last'.error.kind = "run upstream script first"
            /\ last'.error.file \in {f \in UpstreamOfRisk : ~fs[f].exists}
            /\ last'.written = {}
            /\ fs' = fs /\ cache' = cache
       /\ last'.outcome = "completed" => \A f \in UpstreamOfRisk : fs[f].exists]_vars

\* The risk stage, cached by an earlier run, found the peer supply table gone.
C6_Witness ==
  /\ last.stage = RISK
  /\ cache[RISK].exists
  /\ last.outcome = "aborted"
  /\ last.error = [kind |-> "run upstream script first", file |-> PEER_SUPPLY_FILE]

\* C7: the wage-vs-cost stage invoked without the labor summary is not skipped and
\* aborts on the error telling to run the labor stage first, writing nothing (no
\* output, no tuition template, no cache record); it completes only when the labor
\* summary exists.
C7_LaborFirst ==
  [][last'.stage = WAGECOST =>
       /\ ~fs[LABOR_SUMMARY_FILE].exists =>
            /\ last'.outcome = "aborted"
            /\ last'.gate /\ last'.rebuild
            /\ last'.error = [kind |-> "run upstream script first",
                              file |-> LABOR_SUMMARY_FILE]
            /\ last'.written = {}
            /\ fs' = fs /\ cache' = cache
       /\ last'.outcome = "completed" => fs[LABOR_SUMMARY_FILE].exists]_vars

\* The wage-vs-cost stage aborted so with the tuition file missing as well.
C7_Witness ==
  /\ last.stage = WAGECOST
  /\ last.error.file = LABOR_SUMMARY_FILE
  /\ ~fs[TUITION_FILE].exists
  /\ ~fs[LABOR_SUMMARY_FILE].exists

\* ------------------------------------------------------------- configuration claims
ConfigErrors ==
  {"SHRS_DATA_ROOT set but directory does not exist",
   "DATA_ROOT defined but directory does not exist",
   "Data root not configured",
   "MARKET_CONFIG$risk_weights must sum to 1.0"}

\* The last step was a configuration load that failed, typed by the user or made
\* by the guard of a stage script.
LoadFailed == last.outcome = "aborted" /\ last.error.kind \in ConfigErrors

\* C8: with a data root that resolves, a configuration load fails exactly when the
\* four weights sum to more than 0.001 away from 1.0; and a stage invoked after a
\* failed load does not reach its cache check, writes nothing and computes no index
\* with weights that do not sum to 1.0.
C8_FailFast ==
  [][/\ (last'.stage = "config" /\ get_data_root(envRoot, pathsFile).ok) =>
          (last'.outcome = "aborted" <=> WeightsRejected(fileWeights))
     /\ (LoadFailed /\ last'.stage \in Stages) =>
          /\ ~last'.gate
          /\ last'.written = {}
          /\ last'.weights = <<>> \/ ~WeightsRejected(last'.weights)]_vars

EnvResolves == envRoot # "" /\ dir_exists(envRoot)
FileResolves == pathsFile.exists /\ pathsFile.defines /\ dir_exists(pathsFile.DATA_ROOT)

\* Whenever get_data_root returns, it returns an existing directory: the one of
\* the environment variable when that is set, else the one of the override file.
C9_Returned ==
  last.outcome = "completed" =>
    /\ dir_exists(last.value)
    /\ last.value = IF envRoot # "" THEN envRoot ELSE pathsFile.DATA_ROOT

ValidUpstream ==
  \A p \in DOMAIN tables.labor_df :
    /\ tables.labor_df[p].wage_index # NA
    /\ p \in DOMAIN tables.credential_df
    /\ p \in DOMAIN tables.peer_df

InUnit(x, one) == x # NA /\ 0 <= x /\ x <= one

Known(row) ==
  /\ row.wage_level_risk # NA
  /\ row.peer_saturation_risk # NA
  /\ row.credential_pressure_risk # NA

\* C11: market_risk_index is the sum of the four sub-scores, each times its
\* configured weight, and risk_category is Low Risk for an index <= 0.35, Moderate
\* Risk above that up to 0.55, High Risk above 0.55; sub-scores (0.1, 0.2, 0.5,
\* 0.3) under the weights (0.35, 0.25, 0.20, 0.20) give 0.245 and Low Risk.
C11_WeightedSum ==
  (last.stage = "composite" /\ Known(tables.joined)) =>
    LET row == tables.joined
        w == MARKET_CONFIG.risk_weights
        out == tables.market_risk
    IN /\ out.market_risk_index =
            row.labor_demand_risk * w[1] + row.wage_level_risk * w[2]
            + row.peer_saturation_risk * w[3] + row.credential_pressure_risk * w[4]
       /\ out.risk_category = "Low Risk" <=> out.market_risk_index <= 350000
       /\ out.risk_category = "Moderate Risk" <=>
            (out.market_risk_index > 350000 /\ out.market_risk_index <= 550000)
       /\ out.risk_category = "High Risk" <=> out.market_risk_index > 550000
       /\ (w = DefaultWeights
           /\ row = [labor_demand_risk |-> 100, wage_level_risk |-> 200,
                     peer_saturation_risk |-> 500, credential_pressure_risk |-> 300])
          => out = [market_risk_index |-> 245000, risk_category |-> "Low Risk"]

\* The example of the claim was computed.
C11_Witness ==
  /\ last.stage = "composite"
  /\ MARKET_CONFIG.risk_weights = DefaultWeights
  /\ tables.joined = [labor_demand_risk |-> 100, wage_level_risk |-> 200,
                      peer_saturation_risk |-> 500, credential_pressure_risk |-> 300]
  /\ tables.market_risk.market_risk_index = 245000

\* ------------------------------------------------------------- credential claims
\* C12: for every licensure_required and every allowed exam_trend the score is one
\* of 0.2, 0.3, 0.4, 0.5, 0.6, given by the first matching rule (No + Unknown 0.2,
\* Yes + Stable 0.3, Yes + Up 0.5, Yes + Down 0.6, any other Unknown 0.4, else
\* 0.3), and the category is Low up to 0.25, Moderate up to 0.45, High above;
\* (Yes, Down) gives 0.6 and High.
C12_CredentialLookup ==
  (last.stage = CREDENTIAL /\ last.outcome = "completed") =>
    /\ DOMAIN tables.credential_summary = DOMAIN tables.credential_pressure
    /\ \A p \in DOMAIN tables.credential_summary :
         LET l == tables.credential_pressure[p].licensure_required
             e == tables.credential_pressure[p].exam_trend
             row == tables.credential_summary[p]
             score == row.credential_risk_score
         IN /\ score \in {200, 300, 400, 500, 600}
            /\ score = 200 <=> (l = "No" /\ e = "Unknown")
            /\ score = 500 <=> (l = "Yes" /\ e = "Up")
            /\ score = 600 <=> (l = "Yes" /\ e = "Down")
            /\ score = 400 <=> (l # "No" /\ e = "Unknown")
            /\ score = 300 <=> ~(e = "Unknown" \/ (l = "Yes" /\ e \in {"Up", "Down"}))
            /\ row.credential_risk_category =
                 (IF score <= 250 THEN "Low" ELSE IF score <= 450 THEN "Moderate"
                  ELSE "High")
            /\ (l = "Yes" /\ e = "Down") =>
                 (score = 600 /\ row.credential_risk_category = "High")

\* A summary with a (Yes, Down) row at 0.6 and a (No, Unknown) row at 0.2.
C12_Witness ==
  /\ last.stage = CREDENTIAL /\ last.outcome = "completed"
  /\ tables.credential_summary["CSD_SLP"].credential_risk_score = 600
  /\ tables.credential_summary["CSD_SLP"].credential_risk_category = "High"
  /\ tables.credential_summary["CSD_AuD"].credential_risk_score = 200

InvalidTrend == \E p \in DOMAIN tables.credential_pressure :
                  tables.credential_pressure[p].exam_trend \notin allowed_values

\* C13: the credential stage invoked on an input with a row whose exam_trend is
\* outside {Up, Stable, Down, Unknown}, a missing one included, aborts, writes no
\* output and leaves its cache record alone; it computes scores only when every
\* row's exam_trend is in the enumeration.
C13_ExamTrendValidated ==
  [][last'.stage = CREDENTIAL =>
       /\ InvalidTrend =>
            /\ last'.outcome = "aborted"
            /\ last'.written = {}
            /\ fs' = fs /\ cache' = cache /\ tables' = tables
       /\ last'.outcome = "completed" => ~InvalidTrend]_vars

\* The stage aborted on an input whose only invalid exam_trend is a missing one.
C13_Witness ==
  /\ last.stage = CREDENTIAL /\ last.outcome = "aborted"
  /\ last.error.file = CREDENTIAL_FILE
  /\ tables.credential_pressure["CSD_SLP"].exam_trend = "Stable"
  /\ tables.credential_pressure["CSD_AuD"].exam_trend = NA_character
  /\ ~fs[CREDENTIAL_SUMMARY_FILE].exists

\* ------------------------------------------------------------- peer claims
RegionRows(r) == {k \in DOMAIN tables.peer_supply : k[2] = r}
Percentiles(r) == {tables.peer_supply[k].saturation_percentile : k \in RegionRows(r)}

\* Within a region a larger num_programs never has a smaller percentile and equal
\* num_programs have equal percentiles.
PeerMonotone(r) ==
  \A j, k \in RegionRows(r) :
    LET a == tables.peer_supply[j]
        b == tables.peer_supply[k]
    IN /\ (a.num_programs # NA /\ b.num_programs # NA
           /\ a.num_programs > b.num_programs) =>
            a.saturation_percentile >= b.saturation_percentile
       /\ a.num_programs = b.num_programs =>
            a.saturation_percentile = b.saturation_percentile

\* C14: in every region of the peer supply table with more than one row the
\* percentile is monotonic in num_programs, the region's smallest percentile is
\* 0 and its largest is 1.
C14_SpanUnitRange ==
  (last.stage = PEER /\ last.outcome = "completed") =>
    \A i \in DOMAIN Regions :
      Cardinality(RegionRows(Regions[i])) > 1 =>
        /\ PeerMonotone(Regions[i])
        /\ 0 \in Percentiles(Regions[i])
        /\ 1000 \in Percentiles(Regions[i])

\* ------------------------------------------------------------- labor claims
\* C15: every row of the labor summary has exactly one of the five categories:
\* Unknown when the projected growth is missing, High Growth from 15, Moderate
\* Growth from 8 to below 15, Slow Growth from 0 to below 8, Decline below 0;
\* 19.6 is High Growth, 10.4 Moderate Growth and -2.0 Decline.
C15_GrowthBuckets ==
  \A p \in DOMAIN tables.labor_summary :
    LET g == tables.labor_summary[p].projected_growth_pct
        c == tables.labor_summary[p].growth_category
    IN /\ c \in {"Unknown", "High Growth", "Moderate Growth", "Slow Growth", "Decline"}
       /\ c = "Unknown" <=> g = NA
       /\ c = "High Growth" <=> (g # NA /\ g >= Percent(150))
       /\ c = "Moderate Growth" <=> (g # NA /\ g >= Percent(80) /\ g < Percent(150))
       /\ c = "Slow Growth" <=> (g # NA /\ g >= 0 /\ g < Percent(80))
       /\ c = "Decline" <=> (g # NA /\ g < 0)
       /\ g = Percent(196) => c = "High Growth"
       /\ g = Percent(104) => c = "Moderate Growth"
       /\ g = Percent(-20) => c = "Decline"

\* A summary with a row at exactly 15 percent, the -2.0 example and a template row.
C15_Witness ==
  /\ last.stage = LABOR /\ last.outcome = "completed"
  /\ tables.labor_summary["CSD_SLP"].projected_growth_pct = Percent(150)
  /\ tables.labor_summary["CSD_SLP"].growth_category = "High Growth"
  /\ tables.labor_summary["CSD_AuD"].projected_growth_pct = Percent(-20)
  /\ tables.labor_summary["CSD_AuD"].growth_category = "Decline"
  /\ tables.labor_summary["SMN_AT"].growth_category = "Moderate Growth"

\* The labor_demand_risk the claim pairs with each growth_category.
RiskOfCategory(c) ==
  CASE c = "High Growth" -> 100
    [] c = "Moderate Growth" -> 300
    [] c = "Slow Growth" -> 600
    [] c = "Decline" -> 900
    [] c = "Unknown" -> 500

\* C17: the labor_demand_risk the risk stage computes for a program is the value
\* paired with the growth_category the labor stage gave the same row (High Growth
\* 0.1, Moderate Growth 0.3, Slow Growth 0.6, Decline 0.9, Unknown 0.5).
C17_FunctionOfCategory ==
  (last.stage = RISK /\ last.outcome = "completed") =>
    \A p \in DOMAIN tables.market_risk :
      tables.market_risk[p].labor_demand_risk =
        RiskOfCategory(tables.labor_summary[p].growth_category)

\* ------------------------------------------------------------- frame claims
\* The tables a stage writes, as the model holds their contents.
OwnTables(s) ==
  CASE s = LABOR -> {"labor_summary", "labor_df"}
    [] s = CREDENTIAL -> {"credential_summary", "credential_df"}
    [] s = PEER -> {"peer_supply", "peer_df"}
    [] s = WAGECOST -> {}
    [] s = RISK -> {"market_risk"}

C16_Step(s) ==
  last'.stage = s =>
    /\ last'.written \subseteq (Outputs(s) \cup Templates(s))
    /\ \A f \in TrackedFiles \ {PrimaryOutput(s)} : fs'[f] = fs[f]
    /\ \A x \in Stages \ {s} : cache'[x] = cache[x]
    /\ \A n \in (DOMAIN tables) \ OwnTables(s) : tables'[n] = tables[n]
    /\ last'.outcome = "skipped" => (fs' = fs /\ cache' = cache /\ tables' = tables)

\* C16: an invocation of a stage, skipped, completed or aborted, writes only that
\* stage's outputs, templates and cache record; the other stages' outputs, tables
\* and cache records and every external input file are as they were before.
C16_Frame == [][\A s \in Stages : C16_Step(s)]_vars

\* The credential stage completed while the labor and peer stages' outputs and
\* cache records were in place.
C16_Witness ==
  /\ last.stage = CREDENTIAL /\ last.outcome = "completed"
  /\ cache[LABOR].exists /\ fs[LABOR_SUMMARY_FILE].exists
  /\ cache[PEER].exists /\ fs[PEER_SUPPLY_FILE].exists

\* ------------------------------------------------------------- cache claims
\* C18: when only the stages remove or write output tables, a stage's cache record
\* exists only if the stage's primary output table exists; in particular a skipped
\* invocation finds the primary output of an earlier complete run in place.
C18_CacheImpliesOutput ==
  /\ \A s \in Stages : cache[s].exists => fs[PrimaryOutput(s)].exists
  /\ last.outcome = "skipped" => fs[PrimaryOutput(last.stage)].exists

\* A stage skipped on its cache record, its primary output in place, in a run of
\* the pipeline in which the user intervened.
C18_Witness ==
  /\ last.outcome = "skipped"
  /\ cache[last.stage].exists
  /\ fs[PrimaryOutput(last.stage)].exists
  /\ edits > 0

\* ------------------------------------------------------------- downstream claims
\* The upstream tables a downstream stage reads.
UpstreamOf(d) == Range(InputFiles(d)) \cap PrimaryFiles
Downstream == {WAGECOST, RISK}

\* What C19 promises of the invocation of d that this step is.
C19_Recomputed(d) ==
  /\ last'.outcome = "completed"
  /\ last'.rebuild
  /\ last'.written = Outputs(d)
  /\ \A f \in Range(InputFiles(d)) : cache'[d].input_files[f].raw = fs[f].mtime

\* C19 (as stated): when an upstream table was rewritten after the downstream
\* stage last completed, the next invocation of the downstream stage with
\* FORCE_REBUILD off is not skipped and recomputes.
C19_AsStated ==
  [][\A d \in Downstream :
       (/\ last'.stage = d
        /\ cache[d].exists
        /\ ~ForceAtGate
        /\ InputsUsable(d)
        /\ \E u \in UpstreamOf(d) : fs[u].mtime # cache[d].input_files[u].raw)
       => C19_Recomputed(d)]_vars

\* C19 (amended): the same, when the rewritten table's mtime no longer prints, with
\* as.character, as the text the downstream stage's cache record holds for it.
C19_RecomputeOnChangedStamp ==
  [][\A d \in Downstream :
       (/\ last'.stage = d
        /\ cache[d].exists
        /\ ~ForceAtGate
        /\ InputsUsable(d)
        /\ \E u \in UpstreamOf(d) :
             AsCharacter(fs[u].mtime) # cache[d].input_files[u].text)
       => C19_Recomputed(d)]_vars

\* The credential stage has just rewritten its summary, with a new printed time,
\* after the risk stage saved its record; the risk stage's other inputs are usable.
C19_Witness ==
  /\ last.stage = CREDENTIAL /\ last.outcome = "completed"
  /\ cache[RISK].exists
  /\ ~ForceAtGate
  /\ InputsUsable(RISK)
  /\ AsCharacter(fs[CREDENTIAL_SUMMARY_FILE].mtime)
       # cache[RISK].input_files[CREDENTIAL_SUMMARY_FILE].text

\* ------------------------------------------------------------- join claims
Unjoined(p) == p \notin DOMAIN tables.credential_df \/ p \notin DOMAIN tables.peer_df

\* C20: the risk stage writes one row for every program of the labor summary, and a
\* program with no row in the credential summary or in the peer supply table has a
\* missing market_risk_index and the risk_category High Risk.
C20_LeftJoin ==
  (last.stage = RISK /\ last.outcome = "completed") =>
    /\ DOMAIN tables.market_risk = DOMAIN tables.labor_df
    /\ \A p \in DOMAIN tables.labor_df :
         Unjoined(p) =>
           /\ tables.market_risk[p].market_risk_index = NA
           /\ tables.market_risk[p].risk_category = "High Risk"

\* A written table in which one program lacks a credential row (its peer score
\* is known) and the other program has a defined index below High Risk.
C20_Witness ==
  /\ last.stage = RISK /\ last.outcome = "completed"
  /\ "CSD_SLP" \notin DOMAIN tables.credential_df
  /\ tables.market_risk["CSD_SLP"].peer_saturation_risk # NA
  /\ tables.market_risk["CSD_SLP"].risk_category = "High Risk"
  /\ tables.market_risk["CSD_AuD"].market_risk_index # NA
  /\ tables.market_risk["CSD_AuD"].risk_category # "High Risk"

====
